---- MODULE Spec2Model ----
(***************************************************************************)
(* Training-job orchestration of crypto-predict: the POST /train admission *)
(* check, the TrainingSession store, the background worker with its real   *)
(* and simulated execution paths, cancel_training, and the events the      *)
(* worker publishes to the room training_<session_id>.                     *)
(*                                                                         *)
(* Granularity.  The server is one eventlet process: a green thread runs   *)
(* until it sleeps or does I/O.  A worker step of the model is one store   *)
(* write, or one pipeline stage of CryptoPredictor.train with the events   *)
(* that stage publishes (train never reads the store), so every store      *)
(* access of a worker is a step of its own and cancel_training and other   *)
(* requests interleave between any two of them.                            *)
(*                                                                         *)
(* Environment.  Database commits and app.app_context() succeed; what may  *)
(* raise is the pipeline: imports, payload parsing, data fetching, model   *)
(* building, fitting, evaluation, visualisation.                           *)
(*                                                                         *)
(* Optional values (Python None) are sets: {} is None, {v} is the value v. *)
(* Ratios (accuracy, loss, r2) are integers in hundredths.                 *)
(***************************************************************************)
EXTENDS Naturals, Integers, Sequences, FiniteSets, TLC

VARIABLES
    ceiling,    \* app.config MAX_TRAINING_SESSIONS
    job,        \* per request: the validated payload and what the collaborators will return
    req,        \* per request: position of TrainingResource.post
    store,      \* training_sessions table: session_id -> row (domain = existing rows)
    configs,    \* number of rows of model_configurations
    w,          \* per session: the background task _run_training_background
    connected,  \* the clients whose socket is connected
    rooms,      \* socket.io rooms training_<sid> and prediction_<rid>: set of member clients
    client_rooms, \* websocket_routes.client_rooms: client -> the room names it is tracked in
                  \* (domain = the clients that have an entry)
    inbox,      \* per client: the events received, in order
    pending,    \* per session: the emits of the background task not yet run
    call,       \* ProgressTracker.get_progress: the last call and what it returned
    hist        \* history: what has happened so far (observer only)

vars == <<ceiling, job, req, store, configs, w, connected, rooms, client_rooms, inbox, pending,
          call, hist>>

\* ---------------------------------------------------------------- bounds
NumRequests == 2
MaxCeiling == 1
NumClients == 2
MaxEpochs == 21
Overshoot == 50
MaxDelivered == 4
MaxStamp == 1

\* ------------------------------------------------------ program constants
SimEpochCap == 20
EarlyStoppingPatience == 20
NumMetrics == 4
NumPlots == 13
FullFraction == 100

Sessions == 1..NumRequests
Clients == 1..NumClients

\* Room names: f'training_{session_id}' is the session id, f'prediction_{request_id}'
\* the request id with a minus sign; request ids are drawn from the same range
training_(session_id) == session_id
prediction_(request_id) == 0 - request_id
RoomNames == {training_(s) : s \in Sessions} \cup {prediction_(r) : r \in Sessions}

PENDING == "PENDING"
IN_PROGRESS == "IN_PROGRESS"
COMPLETED == "COMPLETED"
FAILED == "FAILED"
CANCELLED == "CANCELLED"
TrainingStatus == {PENDING, IN_PROGRESS, COMPLETED, FAILED, CANCELLED}
Terminal == {COMPLETED, FAILED, CANCELLED}

None == {}
Some(v) == {v}
Min(a, b) == IF a < b THEN a ELSE b

\* ------------------------------------------------------------ the store
\* TrainingSession as created by _create_training_session: PENDING, no metrics
NewSession ==
    [status |-> PENDING, accuracy |-> None, loss |-> None, r2_score |-> None,
     mae |-> None, rmse |-> None, mape |-> None, completed_at |-> None]

\* completed_at is a logical timestamp: the n-th assignment stores n
Now(row) == IF row.completed_at = None THEN 1
            ELSE (CHOOSE n \in row.completed_at : TRUE) + 1

\* TrainingSession.update_status: unconditional assignment
update_status(row, status) == [row EXCEPT !.status = status]

\* TrainingSession.complete: status, completed_at, and each metric that is not None
complete(row, accuracy, loss, r2_score, mae, rmse, mape) ==
    [row EXCEPT !.status = COMPLETED,
                !.completed_at = Some(Now(row)),
                !.accuracy = IF accuracy # None THEN accuracy ELSE @,
                !.loss = IF loss # None THEN loss ELSE @,
                !.r2_score = IF r2_score # None THEN r2_score ELSE @,
                !.mae = IF mae # None THEN mae ELSE @,
                !.rmse = IF rmse # None THEN rmse ELSE @,
                !.mape = IF mape # None THEN mape ELSE @]

\* TrainingService._update_training_status: no row -> logged, nothing written
UpdateTrainingStatus(st, sid, status) ==
    IF sid \in DOMAIN st THEN [st EXCEPT ![sid] = update_status(@, status)] ELSE st

\* TrainingService._update_training_progress: accuracy and loss only
UpdateTrainingProgress(st, sid, accuracy, loss) ==
    IF sid \in DOMAIN st
    THEN [st EXCEPT ![sid].accuracy = Some(accuracy), ![sid].loss = Some(loss)]
    ELSE st

\* _update_training_results creating the row it does not find
UpdateTrainingResultsUpsert(st, sid, accuracy, loss, r2_score, mae, rmse, mape) ==
    IF sid \in DOMAIN st
    THEN [st EXCEPT ![sid] = complete(@, Some(accuracy), Some(loss), r2_score, mae, rmse, mape)]
    ELSE st @@ (sid :> complete(NewSession, Some(accuracy), Some(loss), r2_score, mae, rmse, mape))

\* TrainingService._update_training_results: TrainingSession.complete on the row
UpdateTrainingResults(st, sid, accuracy, loss, r2_score, mae, rmse, mape) ==
    IF sid \in DOMAIN st
    THEN [st EXCEPT ![sid] = complete(@, Some(accuracy), Some(loss), r2_score, mae, rmse, mape)]
    ELSE st

\* the count taken over the rows that are still PENDING
ActiveCountPending(st) == Cardinality({s \in DOMAIN st : st[s].status = PENDING})

\* the count taken over every row that has left PENDING
ActiveCountStarted(st) == Cardinality({s \in DOMAIN st : st[s].status # PENDING})

\* TrainingSession.query.filter_by(status=IN_PROGRESS).count()
ActiveCount(st) == Cardinality({s \in DOMAIN st : st[s].status = IN_PROGRESS})

\* ------------------------------------------------------ progress tracker
\* ProgressTracker.STAGE_PROGRESS; a stage outside the table has base 0
STAGE_PROGRESS(stage) ==
    CASE stage = "data_fetching" -> 5
      [] stage = "data_fetched" -> 10
      [] stage = "preprocessing" -> 15
      [] stage = "feature_engineering" -> 20
      [] stage = "model_building" -> 25
      [] stage = "model_info" -> 30
      [] stage = "training_update" -> 35
      [] stage = "training_progress" -> 40
      [] stage = "evaluating_update" -> 70
      [] stage = "visualizing_update" -> 85
      [] stage = "training_completed" -> 100
      [] OTHER -> 0

\* list(STAGE_PROGRESS.keys()): the stages in the order of the table
stages ==
    << "data_fetching", "data_fetched", "preprocessing", "feature_engineering",
       "model_building", "model_info", "training_update", "training_progress",
       "evaluating_update", "visualizing_update", "training_completed" >>

ModelStages == {stages[i] : i \in 1..Len(stages)}

\* stages.index(stage)
StageIndex(stage) == CHOOSE i \in 1..Len(stages) : stages[i] = stage

\* ProgressTracker._get_stage_range: the distance to the next base, 5 for the
\* last stage and for a stage outside the table (ValueError)
get_stage_range(stage) ==
    IF stage \notin ModelStages THEN 5
    ELSE IF StageIndex(stage) + 1 <= Len(stages)
         THEN STAGE_PROGRESS(stages[StageIndex(stage) + 1]) - STAGE_PROGRESS(stage)
         ELSE 5

\* int(h / 100): Python's int() truncates toward zero
IntOfHundredths(h) == IF h >= 0 THEN h \div 100 ELSE -((-h) \div 100)

\* get_progress with the contributions rounded up instead of truncated
get_progress_rounded_up(stage, epoch_progress, sub_progress) ==
    LET base_progress == STAGE_PROGRESS(stage)
    IN CASE stage = "training_progress" ->
              Min((0 - ((0 - (100 * base_progress + epoch_progress * 30)) \div 100)), 70)
         [] stage = "evaluating_update" ->
              Min((0 - ((0 - (100 * base_progress + sub_progress * 15)) \div 100)), 85)
         [] stage = "visualizing_update" ->
              Min((0 - ((0 - (100 * base_progress + sub_progress * 15)) \div 100)), 100)
         [] OTHER -> base_progress

\* get_progress with the training contribution neither scaled nor capped
get_progress_unscaled(stage, epoch_progress, sub_progress) ==
    LET base_progress == STAGE_PROGRESS(stage)
    IN CASE stage = "training_progress" -> base_progress + epoch_progress
         [] stage = "evaluating_update" ->
              Min(IntOfHundredths(100 * base_progress + sub_progress * 15), 85)
         [] stage = "visualizing_update" ->
              Min(IntOfHundredths(100 * base_progress + sub_progress * 15), 100)
         [] OTHER -> base_progress

\* ProgressTracker.get_progress; the fractions are percentages, so
\* base + (fraction / 100) * range is (100 * base + fraction * range) / 100
get_progress(stage, epoch_progress, sub_progress) ==
    LET base_progress == STAGE_PROGRESS(stage)
    IN CASE stage = "training_progress" ->
              Min(IntOfHundredths(100 * base_progress + epoch_progress * 30), 70)
         [] stage = "evaluating_update" ->
              Min(IntOfHundredths(100 * base_progress + sub_progress * 15), 85)
         [] stage = "visualizing_update" ->
              Min(IntOfHundredths(100 * base_progress + sub_progress * 15), 100)
         [] OTHER ->
              Min(IntOfHundredths(100 * base_progress + sub_progress * get_stage_range(stage)),
                  STAGE_PROGRESS(stage))

\* WebSocketManager._get_phase_from_stage
PhaseFromStage(stage) ==
    CASE stage \in {"data_fetching", "data_fetched"} -> "data"
      [] stage = "preprocessing" -> "preprocess"
      [] stage = "feature_engineering" -> "features"
      [] stage \in {"model_building", "model_info"} -> "build"
      [] stage = "evaluating_update" -> "evaluate"
      [] stage \in {"visualizing_update", "series"} -> "visualize"
      [] stage \in {"training_completed", "training_complete"} -> "complete"
      [] OTHER -> "train"

\* ProgressTracker.update_training_progress(epoch, total) followed by
\* get_progress(TRAINING_PROGRESS): min(int(40 + (epoch/total*100)/100*30), 70)
TrainingProgress(epoch, total) ==
    Min(STAGE_PROGRESS("training_progress") + (30 * epoch) \div total, 70)

\* ---------------------------------------------------------------- events
Event(sid, kind, event, phase, progress) ==
    [sid |-> sid, kind |-> kind, event |-> event, phase |-> phase, progress |-> progress,
     epoch |-> 0]

\* the 'epoch' entry of the data of the events published for one epoch
AtEpoch(evs, e) == [i \in 1..Len(evs) |-> [evs[i] EXCEPT !.epoch = e]]

\* WebSocketManager.emit_stage -> broadcast_stage_update: the event named after
\* the stage (its payload carries the caller's own 'progress', if any) and the
\* unified training_update carrying the tracker's percentage.  No caller passes
\* 'sub_progress' and no caller uses the stage 'training_progress', so the
\* tracker yields get_progress(stage, 0, 0), the base of the stage.
EmitStage(sid, stage, dataProgress) ==
    << Event(sid, "stage", stage, PhaseFromStage(stage), dataProgress),
       Event(sid, "unified", stage, PhaseFromStage(stage), Some(STAGE_PROGRESS(stage))) >>

\* TrainingService._emit_training_update / WebSocketManager.emit_training_update
EmitTrainingUpdate(sid, type, progress) ==
    << Event(sid, "legacy", type, "", Some(progress)) >>

\* WebSocketManager.emit_unified
EmitUnified(sid, phase, event, progress) ==
    << Event(sid, "unified", event, phase, progress) >>

\* WebSocketManager.emit_metric_sample
EmitMetricSample(sid, epoch, total) ==
    EmitUnified(sid, "train", "metric_sample", Some(TrainingProgress(epoch, total)))

\* WebSocketManager.emit_series: no progress
EmitSeries(sid) == EmitUnified(sid, "visualize", "series", None)

\* socketio.emit(..., room='training_<sid>'): every member of the room receives it
Deliver(box, sid, evs) ==
    [c \in Clients |-> IF c \in rooms[sid] THEN box[c] \o evs ELSE box[c]]

RECURSIVE Repeat(_, _)
Repeat(seq, n) == IF n = 0 THEN << >> ELSE seq \o Repeat(seq, n - 1)

RECURSIVE Flat(_, _, _)
\* f(1) \o f(2) \o ... \o f(n), for f given as a function on 1..n
Flat(f, i, n) == IF i > n THEN << >> ELSE f[i] \o Flat(f, i + 1, n)

\* ------------------------------------------------------------ the worker
\* cause: what made the real path raise ("none", "pipeline", "publish")
NoWorker == [pc |-> "none", epoch |-> 0, mgr |-> TRUE, cause |-> "none"]

\* max_epochs without the cap of the simulation
max_epochs_uncapped(epochs) == IF epochs = 0 THEN 1 ELSE epochs

\* max_epochs = min(epochs, 20) or 1
max_epochs(epochs) ==
    IF Min(epochs, SimEpochCap) = 0 THEN 1 ELSE Min(epochs, SimEpochCap)

\* OnRaise without the except branch of _run_training_background
OnRaiseNoOuterHandler(pc) ==
    CASE pc \in {"r_setup", "t_data", "t_build", "t_fit_begin", "t_epoch",
                 "t_eval", "t_viz"} -> "s_start"
      [] pc = "s_start" -> "s_except"
      [] OTHER -> "escaped"

\* Where control goes when the step at pc raises:
\*   inside _run_real_training       -> the fallback _complete_training_immediately
\*   inside _complete_training_immediately -> its except branch (FAILED, re-raise)
\*   that re-raise                   -> the except branch of _run_training_background
OnRaise(pc) ==
    CASE pc \in {"r_setup", "t_data", "t_build", "t_fit_begin", "t_epoch",
                 "t_eval", "t_viz"} -> "s_start"
      [] pc = "s_start" -> "s_except"
      [] pc = "s_except" -> "bg_except"
      [] OTHER -> "escaped"

Running(s) == w[s].pc \notin {"none", "done", "escaped"}

\* the worker without the sleeps that let the background emit tasks run
YieldedNever(s) == TRUE

\* The worker has slept (time.sleep / socketio.sleep under eventlet) since its
\* last emit_stage: the reactor has run the background task scheduled by it
Yielded(s) == pending[s] = << >>

\* What reaches the room of an emit: nothing when socketio.emit raises
Sent(s, evs) == IF job[s].emit = "emit_raises" THEN << >> ELSE evs


\* ---------------------------------------------------------------- history
NoOp == <<"none", 0, 0>>

\* overlap:  some admission check ran while another request was between its
\*           check and the end of start_training
\* terminal: some row has had a terminal status
\* op:       the request served by the last step, when that step was a client's
\*           request on a room or a direct call of a store helper
Observe ==
    hist' = [overlap |-> hist.overlap
                         \/ \E s, t \in Sessions :
                               /\ s # t
                               /\ req[s] \in {"idle", "rejected"}
                               /\ req'[s] \in {"checked", "rejected"}
                               /\ req[t] \in {"checked", "created", "start_except"},
             terminal |-> hist.terminal
                          \/ \E s \in DOMAIN store' : store'[s].status \in Terminal,
             op |-> NoOp]

\* a worker whose store writes are skipped while nobody is in the room
WorkerStepWatched(s, next, st, evs) ==
    /\ w' = [w EXCEPT ![s] = next]
    /\ store' = IF rooms[s] = {} THEN store ELSE st
    /\ inbox' = Deliver(inbox, s, Sent(s, evs))
    /\ UNCHANGED <<call, ceiling, connected, job, req, configs, rooms, client_rooms, pending>>
    /\ Observe

\* One step of the worker of session s: next position, store after the step,
\* events published to the room of s
\* (socketio.emit called by the worker itself: emit_unified,
\* emit_training_update, _emit_training_update)
WorkerStep(s, next, st, evs) ==
    /\ w' = [w EXCEPT ![s] = next]
    /\ store' = st
    /\ inbox' = Deliver(inbox, s, Sent(s, evs))
    /\ UNCHANGED <<call, ceiling, connected, job, req, configs, rooms, client_rooms, pending>>
    /\ Observe

\* One step of the worker of session s whose events go through emit_stage.
\* emit_stage sleeps 0.5 s and then hands its two emits to a background task
\* (broadcast_stage_update): the task of the previous emit_stage has run during
\* that sleep, the task of the last emit_stage of the step is still to run,
\* unless the step itself ends with a sleep (slept).  An emit to a room without
\* members reaches nobody, so the task of such an emit is not kept: a client
\* that joins an empty room while such a task waits counts as having joined
\* after the task ran.
StageStep(s, next, st, evs, slept) ==
    /\ evs # << >> => Yielded(s)
    /\ w' = [w EXCEPT ![s] = next]
    /\ store' = st
    /\ LET n == IF slept \/ evs = << >> THEN Len(evs) ELSE Len(evs) - 2
       IN /\ inbox' = Deliver(inbox, s, Sent(s, SubSeq(evs, 1, n)))
          /\ pending' = [pending EXCEPT ![s] = IF evs = << >> \/ rooms[s] = {} THEN @
                                               ELSE SubSeq(evs, n + 1, Len(evs))]
    /\ UNCHANGED <<call, ceiling, connected, job, req, configs, rooms, client_rooms>>
    /\ Observe

\* broadcast_stage_update.async_emit: the background task runs its two emits
AsyncEmit(s) ==
    /\ pending[s] # << >>
    /\ inbox' = Deliver(inbox, s, Sent(s, pending[s]))
    /\ pending' = [pending EXCEPT ![s] = << >>]
    /\ UNCHANGED <<call, ceiling, connected, job, req, store, configs, w, rooms, client_rooms>>
    /\ Observe

At(s, pc) == [w[s] EXCEPT !.pc = pc]
\* a pipeline operation raises
Raised(s) == [At(s, OnRaise(w[s].pc)) EXCEPT !.cause = IF @ = "none" THEN "pipeline" ELSE @]
\* emit_stage raises (start_background_task raising) where the caller does not guard it
PublishRaised(s) == [At(s, OnRaise(w[s].pc)) EXCEPT !.cause = "publish"]

\* _run_training_background: entering app.app_context()
BgStart(s) ==
    /\ w[s].pc = "bg_start"
    /\ WorkerStep(s, At(s, "r_setup"), store, << >>)

\* _run_real_training, lines 113-134: the lazy imports and the parsing of
\* training_data.  A failing import of ml_app.websocket.manager (mgr = FALSE)
\* fails again in the fallback; any other failure leaves the manager importable.
RealSetup(s) ==
    /\ w[s].pc = "r_setup"
    /\ \/ WorkerStep(s, At(s, "r_inprogress"), store, << >>)
       \/ \E m \in BOOLEAN : WorkerStep(s, [Raised(s) EXCEPT !.mgr = m], store, << >>)

\* _run_real_training line 139
RealInProgress(s) ==
    /\ w[s].pc = "r_inprogress"
    /\ WorkerStep(s, At(s, "t_data"), UpdateTrainingStatus(store, s, IN_PROGRESS), << >>)

\* ModelConfig / WebSocketManager / CryptoPredictor construction, then
\* CryptoPredictor.train up to the preprocessing summary
TrainData(s) ==
    /\ w[s].pc = "t_data"
    /\ \/ WorkerStep(s, Raised(s), store, << >>)
       \/ /\ job[s].emit = "schedule_raises"
          /\ WorkerStep(s, PublishRaised(s), store, << >>)
       \/ /\ job[s].emit # "schedule_raises"
          /\ StageStep(s, Raised(s), store, EmitStage(s, "data_fetching", None), FALSE)
       \/ /\ job[s].emit # "schedule_raises"
          /\ StageStep(s, At(s, "t_build"), store,
                       EmitStage(s, "data_fetching", None)
                       \o EmitStage(s, "data_fetched", None)
                       \o EmitStage(s, "preprocessing", None), FALSE)

\* CryptoPredictor.train lines 148-197; a failing build is swallowed there,
\* leaves self.model = None, and self.model.fit raises at line 210
TrainBuild(s) ==
    /\ w[s].pc = "t_build"
    /\ \/ StageStep(s, Raised(s), store,
                    EmitStage(s, "feature_engineering", None)
                    \o EmitStage(s, "model_building", None), FALSE)
       \/ StageStep(s, At(s, "t_fit_begin"), store,
                    EmitStage(s, "feature_engineering", None)
                    \o EmitStage(s, "model_building", None)
                    \o EmitStage(s, "model_info", None), FALSE)

\* model.fit starts: WSCallback.on_train_begin
TrainFitBegin(s) ==
    /\ w[s].pc = "t_fit_begin"
    /\ \/ WorkerStep(s, Raised(s), store, << >>)
       \/ StageStep(s, [At(s, "t_epoch") EXCEPT !.epoch = 0], store,
                    EmitStage(s, "training_update", Some(0)), FALSE)

\* one epoch of model.fit, then WSCallback.on_epoch_end; EarlyStopping may end
\* the loop once more than `patience` epochs have run
TrainEpoch(s) ==
    /\ w[s].pc = "t_epoch"
    /\ LET e == w[s].epoch + 1
           total == job[s].epochs
           evs == AtEpoch(EmitStage(s, "training_update", Some((100 * e) \div total)), e)
       IN \/ WorkerStep(s, Raised(s), store, << >>)
          \/ /\ e < total
             /\ StageStep(s, [At(s, "t_epoch") EXCEPT !.epoch = e], store, evs, FALSE)
          \/ /\ e = total \/ e > EarlyStoppingPatience
             /\ StageStep(s, [At(s, "t_fit_end") EXCEPT !.epoch = e], store, evs, FALSE)

\* WSCallback.on_train_end
TrainFitEnd(s) ==
    /\ w[s].pc = "t_fit_end"
    /\ StageStep(s, At(s, "t_eval"), store, EmitStage(s, "training_update", Some(100)), FALSE)

\* predict, the evaluating_update per metric, calculate_metrics, the final
\* evaluating_update
TrainEval(s) ==
    /\ w[s].pc = "t_eval"
    /\ LET perMetric == Flat([i \in 1..NumMetrics |->
                                 EmitStage(s, "evaluating_update",
                                           Some((100 * i) \div NumMetrics))],
                             1, NumMetrics)
       IN \/ WorkerStep(s, Raised(s), store, << >>)
          \/ StageStep(s, Raised(s), store, perMetric, FALSE)
          \/ StageStep(s, At(s, "t_viz"), store,
                       perMetric \o EmitStage(s, "evaluating_update", Some(100)), FALSE)

\* Visualizer import, two visualizing_update per plot (processing, then
\* completed or failed), the final visualizing_update, _save_state, and the
\* two socketio.sleep(2) before train returns
TrainViz(s) ==
    /\ w[s].pc = "t_viz"
    /\ LET perPlot == Flat([i \in 1..NumPlots |->
                               Repeat(EmitStage(s, "visualizing_update",
                                                Some((100 * i) \div NumPlots)), 2)],
                           1, NumPlots)
           all == perPlot \o EmitStage(s, "visualizing_update", Some(100))
       IN \/ WorkerStep(s, Raised(s), store, << >>)
          \/ StageStep(s, Raised(s), store, all, FALSE)
          \/ StageStep(s, At(s, "r_progress"), store, all, TRUE)

\* _run_real_training line 161: accuracy = test r2, loss = last epoch loss
RealProgress(s) ==
    /\ w[s].pc = "r_progress"
    /\ WorkerStep(s, At(s, "r_series"),
                  UpdateTrainingProgress(store, s, job[s].real.r2, job[s].real.loss), << >>)

\* _run_real_training lines 164-248: emit_series
RealSeries(s) ==
    /\ w[s].pc = "r_series"
    /\ WorkerStep(s, At(s, "r_results"), store, EmitSeries(s))

\* _run_real_training lines 249-253
RealResults(s) ==
    /\ w[s].pc = "r_results"
    /\ LET m == job[s].real
       IN WorkerStep(s, At(s, "r_status"),
                     UpdateTrainingResults(store, s, m.r2, m.loss, Some(m.r2),
                                           Some(m.mae), Some(m.rmse), Some(m.mape)),
                     << >>)

\* _run_real_training line 254
RealStatus(s) ==
    /\ w[s].pc = "r_status"
    /\ WorkerStep(s, At(s, "r_complete"), UpdateTrainingStatus(store, s, COMPLETED), << >>)

\* _run_real_training lines 256-300: socketio.sleep(2.0), the completion events
RealComplete(s) ==
    /\ w[s].pc = "r_complete"
    /\ Yielded(s)
    /\ WorkerStep(s, At(s, "done"), store,
                  EmitTrainingUpdate(s, "training_completed", 100)
                  \o EmitUnified(s, "complete", "training_completed", Some(100)))

\* _complete_training_immediately lines 303-350: the imports, socketio.sleep(3),
\* the started events
SimStart(s) ==
    /\ w[s].pc = "s_start"
    /\ \/ /\ ~w[s].mgr
          /\ WorkerStep(s, Raised(s), store, << >>)
       \/ /\ w[s].mgr
          /\ Yielded(s)
          /\ WorkerStep(s, [At(s, "s_epoch_emit") EXCEPT !.epoch = 1], store,
                        EmitTrainingUpdate(s, "training_started", 0)
                        \o EmitUnified(s, "train", "training_started", Some(0)))

\* epoch loop, lines 359-384: the legacy training_progress and the metric sample
SimEpochEmit(s) ==
    /\ w[s].pc = "s_epoch_emit"
    /\ LET e == w[s].epoch
           total == max_epochs(job[s].epochs)
       IN WorkerStep(s, At(s, "s_epoch_write"), store,
                     AtEpoch(EmitTrainingUpdate(s, "training_progress", (100 * e) \div total)
                             \o EmitMetricSample(s, e, total), e))

\* epoch loop, line 386: current_accuracy = accuracy * epoch/max_epochs + noise,
\* current_loss = loss * (1 - epoch/max_epochs) + noise, noise in [-0.02, 0.02]
\* (the two extremes of the noise; no step reads the stored values back)
SimEpochWrite(s) ==
    /\ w[s].pc = "s_epoch_write"
    /\ LET e == w[s].epoch
           total == max_epochs(job[s].epochs)
           m == job[s].sim
       IN \E noise \in {-2, 2} :
            WorkerStep(s,
                       IF e < total THEN [At(s, "s_epoch_emit") EXCEPT !.epoch = e + 1]
                                    ELSE At(s, "s_final_progress"),
                       UpdateTrainingProgress(store, s,
                                              (m.accuracy * e) \div total + noise,
                                              (m.loss * (total - e)) \div total + noise),
                       << >>)

\* line 397
SimFinalProgress(s) ==
    /\ w[s].pc = "s_final_progress"
    /\ WorkerStep(s, At(s, "s_final_emit"),
                  UpdateTrainingProgress(store, s, job[s].sim.accuracy, job[s].sim.loss),
                  << >>)

\* lines 399-416: emit_series, then the legacy training_progress with 100
SimFinalEmit(s) ==
    /\ w[s].pc = "s_final_emit"
    /\ WorkerStep(s, At(s, "s_status"), store,
                  EmitSeries(s) \o EmitTrainingUpdate(s, "training_progress", 100))

\* line 419
SimStatus(s) ==
    /\ w[s].pc = "s_status"
    /\ WorkerStep(s, At(s, "s_results"), UpdateTrainingStatus(store, s, COMPLETED), << >>)

\* line 422
SimResults(s) ==
    /\ w[s].pc = "s_results"
    /\ LET m == job[s].sim
       IN WorkerStep(s, At(s, "s_complete"),
                     UpdateTrainingResults(store, s, m.accuracy, m.loss, Some(m.r2_score),
                                           Some(m.mae), Some(m.rmse), Some(m.mape)),
                     << >>)

\* lines 424-459: the completion events
SimComplete(s) ==
    /\ w[s].pc = "s_complete"
    /\ WorkerStep(s, At(s, "done"), store,
                  EmitTrainingUpdate(s, "training_completed", 100)
                  \o EmitUnified(s, "complete", "training_completed", Some(100)))

\* _complete_training_immediately lines 461-464: FAILED, then re-raise
SimExcept(s) ==
    /\ w[s].pc = "s_except"
    /\ WorkerStep(s, Raised(s), UpdateTrainingStatus(store, s, FAILED), << >>)

\* _run_training_background lines 101-108: FAILED, nothing re-raised
BgExcept(s) ==
    /\ w[s].pc = "bg_except"
    /\ WorkerStep(s, At(s, "done"), UpdateTrainingStatus(store, s, FAILED), << >>)

Worker(s) ==
    \/ BgStart(s) \/ RealSetup(s) \/ RealInProgress(s)
    \/ TrainData(s) \/ TrainBuild(s) \/ TrainFitBegin(s) \/ TrainEpoch(s)
    \/ TrainFitEnd(s) \/ TrainEval(s) \/ TrainViz(s)
    \/ RealProgress(s) \/ RealSeries(s) \/ RealResults(s) \/ RealStatus(s)
    \/ RealComplete(s)
    \/ SimStart(s) \/ SimEpochEmit(s) \/ SimEpochWrite(s) \/ SimFinalProgress(s)
    \/ SimFinalEmit(s) \/ SimStatus(s) \/ SimResults(s) \/ SimComplete(s)
    \/ SimExcept(s) \/ BgExcept(s)


\* ---------------------------------------------------------- POST /train
\* the limit check with > in place of >=
AdmitAboveLimit(active, max_sessions) == ~(active > max_sessions)

\* TrainingResource.post, the session limit check: admitted unless
\* active_sessions >= max_sessions
Admit(active, max_sessions) == ~(active >= max_sessions)

\* the handler creating its records before the limit check
PostCheckCreateFirst(s) ==
    /\ req[s] \in {"idle", "rejected"}
    /\ configs' = configs + 1
    /\ store' = store @@ (s :> NewSession)
    /\ \/ /\ ~Admit(ActiveCount(store), ceiling)
          /\ req' = [req EXCEPT ![s] = "rejected"]
       \/ /\ Admit(ActiveCount(store), ceiling)
          /\ req' = [req EXCEPT ![s] = "checked"]
    /\ UNCHANGED <<call, ceiling, connected, job, w, rooms, client_rooms, inbox, pending>>
    /\ Observe

\* A request that is rejected stores nothing, not even its generated request
\* id, so the same slot serves for the client's later resubmission.
PostCheck(s) ==
    /\ req[s] \in {"idle", "rejected"}
    /\ \/ /\ ~Admit(ActiveCount(store), ceiling)
          /\ req' = [req EXCEPT ![s] = "rejected"]
       \/ /\ Admit(ActiveCount(store), ceiling)
          /\ req' = [req EXCEPT ![s] = "checked"]
    /\ UNCHANGED <<call, ceiling, connected, job, store, configs, w, rooms, client_rooms, inbox, pending>>
    /\ Observe

\* TrainingResource._create_training_session: one ModelConfiguration row and
\* the TrainingSession row, PENDING
PostCreate(s) ==
    /\ req[s] = "checked"
    /\ configs' = configs + 1
    /\ store' = store @@ (s :> NewSession)
    /\ req' = [req EXCEPT ![s] = "created"]
    /\ UNCHANGED <<call, ceiling, connected, job, w, rooms, client_rooms, inbox, pending>>
    /\ Observe

\* TrainingService.start_training: the row exists; IN_PROGRESS, then
\* start_background_task, which either schedules the worker or raises
PostStart(s) ==
    /\ req[s] = "created"
    /\ store' = UpdateTrainingStatus(store, s, IN_PROGRESS)
    /\ \/ /\ w' = [w EXCEPT ![s] = [NoWorker EXCEPT !.pc = "bg_start"]]
          /\ req' = [req EXCEPT ![s] = "accepted"]
       \/ /\ req' = [req EXCEPT ![s] = "start_except"]
          /\ UNCHANGED w
    /\ UNCHANGED <<call, ceiling, connected, job, configs, rooms, client_rooms, inbox, pending>>
    /\ Observe

\* TrainingService.start_training lines 83-87: FAILED, success = False
PostStartExcept(s) ==
    /\ req[s] = "start_except"
    /\ store' = UpdateTrainingStatus(store, s, FAILED)
    /\ req' = [req EXCEPT ![s] = "error"]
    /\ UNCHANGED <<call, ceiling, connected, job, configs, w, rooms, client_rooms, inbox, pending>>
    /\ Observe

\* ------------------------------------------------- cancel / status polling
\* cancel_training accepting every status that is not terminal
CancelTrainingNotTerminal(st, sid) ==
    IF sid \in DOMAIN st
    THEN IF st[sid].status \notin Terminal
         THEN [success |-> TRUE, store |-> [st EXCEPT ![sid] = update_status(@, CANCELLED)]]
         ELSE [success |-> FALSE, store |-> st]
    ELSE [success |-> FALSE, store |-> st]

\* TrainingService.cancel_training: the result and the store it leaves
CancelTraining(st, sid) ==
    IF sid \in DOMAIN st
    THEN IF st[sid].status = IN_PROGRESS
         THEN [success |-> TRUE, store |-> [st EXCEPT ![sid] = update_status(@, CANCELLED)]]
         ELSE [success |-> FALSE, store |-> st]
    ELSE [success |-> FALSE, store |-> st]

Cancel(s) ==
    /\ store' = CancelTraining(store, s).store
    /\ UNCHANGED <<call, ceiling, connected, job, req, configs, w, rooms, client_rooms, inbox, pending>>
    /\ Observe

\* The hundredths h up to 2.00 for which the double (h/100) * 100 falls just
\* short of h, as 0.29 * 100 = 28.999999999999996
ShortProducts == {29, 57, 58, 113, 114, 115, 116}

\* int(session.accuracy * 100) for an accuracy of a hundredths: the double
\* product, truncated toward zero
IntOfAccuracyTimes100(a) ==
    IF a >= 0 THEN (IF a \in ShortProducts THEN a - 1 ELSE a)
    ELSE (IF (0 - a) \in ShortProducts THEN a + 1 ELSE a)

\* TrainingService._calculate_progress
CalculateProgress(row) ==
    IF row.status = COMPLETED THEN [percentage |-> 100, stage |-> "completed"]
    ELSE IF row.status = FAILED THEN [percentage |-> 0, stage |-> "failed"]
    ELSE IF row.status = IN_PROGRESS
         THEN IF row.accuracy # None
              THEN [percentage |-> Min(95, IntOfAccuracyTimes100(CHOOSE a \in row.accuracy : TRUE)),
                    stage |-> "training"]
              ELSE [percentage |-> 50, stage |-> "training"]
    ELSE [percentage |-> 0, stage |-> "pending"]

\* TrainingService.get_training_status: None for an unknown id
GetTrainingStatus(st, sid) ==
    IF sid \in DOMAIN st
    THEN Some([session_id |-> sid, status |-> st[sid].status,
               progress |-> CalculateProgress(st[sid])])
    ELSE None

\* ------------------------------------------- direct calls of the helpers
\* what a direct call leaves alone
CallFrame(kind, sid) ==
    /\ hist' = [hist EXCEPT !.op = <<kind, sid, 0>>]
    /\ UNCHANGED <<call, ceiling, connected, job, req, configs, w, rooms, client_rooms, inbox, pending>>

\* _update_training_status(sid, status), whether or not sid has a row
UpdateStatusCall(sid, status) ==
    /\ store' = UpdateTrainingStatus(store, sid, status)
    /\ CallFrame("update_status", sid)

\* _update_training_progress(sid, ...) with the draws of the job
UpdateProgressCall(sid) ==
    /\ store' = UpdateTrainingProgress(store, sid, job[sid].sim.accuracy, job[sid].sim.loss)
    /\ CallFrame("update_progress", sid)

\* _update_training_results(sid, ...) with the draws of the job
UpdateResultsCall(sid) ==
    /\ sid \in DOMAIN store => Now(store[sid]) <= MaxStamp
    /\ LET m == job[sid].sim
       IN store' = UpdateTrainingResults(store, sid, m.accuracy, m.loss, Some(m.r2_score),
                                         Some(m.mae), Some(m.rmse), Some(m.mape))
    /\ CallFrame("update_results", sid)

\* ------------------------------------------------------- subscriptions
\* emit('joined_training', ...) / emit('left_training', ...): the reply to the caller
Ack(sid, name) == Event(sid, "ack", name, "", None)

\* the training_update of type 'status' with progress 0, lines 53-58
Snapshot(sid) == Event(sid, "snapshot", "status", "", Some(0))

RECURSIVE TotalLen(_, _)
TotalLen(box, cs) ==
    IF cs = {} THEN 0
    ELSE LET c == CHOOSE x \in cs : TRUE IN Len(box[c]) + TotalLen(box, cs \ {c})

\* the messages the handlers have sent so far (replies to join and leave)
Delivered ==
    TotalLen([c \in Clients |->
                 SelectSeq(inbox[c], LAMBDA e : e.kind \in {"ack", "snapshot"})], Clients)

\* client_id in client_rooms and room_name in client_rooms[client_id]
Tracked(c, room_name) == c \in DOMAIN client_rooms /\ room_name \in client_rooms[c]

\* lines 45-47: the entry is created when missing, then the room name added
Track(c, room_name) ==
    IF c \in DOMAIN client_rooms THEN [client_rooms EXCEPT ![c] = @ \cup {room_name}]
    ELSE client_rooms @@ (c :> {room_name})

\* removal from the tracking that keeps the entry of a client without rooms
UntrackKeepsEntry(c, room_name) ==
    IF Tracked(c, room_name) THEN [client_rooms EXCEPT ![c] = @ \ {room_name}]
    ELSE client_rooms

\* lines 73-76: the room name is removed, and the entry with it when it was the last
Untrack(c, room_name) ==
    IF Tracked(c, room_name)
    THEN IF client_rooms[c] = {room_name}
         THEN [d \in DOMAIN client_rooms \ {c} |-> client_rooms[d]]
         ELSE [client_rooms EXCEPT ![c] = @ \ {room_name}]
    ELSE client_rooms

\* handle_join_training without the check of lines 37-40
JoinUnchecked(c, s) ==
    /\ c \in connected
    /\ Delivered < MaxDelivered
    /\ rooms' = [rooms EXCEPT ![training_(s)] = @ \cup {c}]
    /\ client_rooms' = Track(c, training_(s))
    /\ inbox' = [inbox EXCEPT ![c] = @ \o << Ack(s, "joined_training"), Snapshot(s) >>]
    /\ hist' = [hist EXCEPT !.op = <<"join_training", c, s>>]
    /\ UNCHANGED <<call, ceiling, connected, job, req, store, configs, w, pending>>

\* handle_join_training with the snapshot emitted to the room
JoinSnapshotToRoom(c, s) ==
    /\ c \in connected
    /\ \/ /\ Tracked(c, training_(s))
          /\ UNCHANGED <<rooms, client_rooms, inbox>>
       \/ /\ ~Tracked(c, training_(s))
          /\ Delivered < MaxDelivered
          /\ rooms' = [rooms EXCEPT ![training_(s)] = @ \cup {c}]
          /\ client_rooms' = Track(c, training_(s))
          /\ inbox' = [d \in Clients |->
                          IF d = c THEN inbox[d] \o << Ack(s, "joined_training"), Snapshot(s) >>
                          ELSE IF d \in rooms[training_(s)] THEN inbox[d] \o << Snapshot(s) >>
                          ELSE inbox[d]]
    /\ hist' = [hist EXCEPT !.op = <<"join_training", c, s>>]
    /\ UNCHANGED <<call, ceiling, connected, job, req, store, configs, w, pending>>

\* handle_join_training by client c with data {'session_id': s}
Join(c, s) ==
    /\ c \in connected
    /\ \/ /\ Tracked(c, training_(s))
          /\ UNCHANGED <<rooms, client_rooms, inbox>>
       \/ /\ ~Tracked(c, training_(s))
          /\ Delivered < MaxDelivered
          /\ rooms' = [rooms EXCEPT ![training_(s)] = @ \cup {c}]
          /\ client_rooms' = Track(c, training_(s))
          /\ inbox' = [inbox EXCEPT ![c] = @ \o << Ack(s, "joined_training"), Snapshot(s) >>]
    /\ hist' = [hist EXCEPT !.op = <<"join_training", c, s>>]
    /\ UNCHANGED <<call, ceiling, connected, job, req, store, configs, w, pending>>

\* handle_leave_training by client c with data {'session_id': s}
Leave(c, s) ==
    /\ c \in connected
    /\ Delivered < MaxDelivered
    /\ rooms' = [rooms EXCEPT ![training_(s)] = @ \ {c}]
    /\ client_rooms' = Untrack(c, training_(s))
    /\ inbox' = [inbox EXCEPT ![c] = @ \o << Ack(s, "left_training") >>]
    /\ hist' = [hist EXCEPT !.op = <<"leave_training", c, s>>]
    /\ UNCHANGED <<call, ceiling, connected, job, req, store, configs, w, pending>>

\* handle_join_prediction by client c with data {'request_id': r}
JoinPrediction(c, r) ==
    /\ c \in connected
    /\ \/ /\ Tracked(c, prediction_(r))
          /\ UNCHANGED <<rooms, client_rooms, inbox>>
       \/ /\ ~Tracked(c, prediction_(r))
          /\ Delivered < MaxDelivered
          /\ rooms' = [rooms EXCEPT ![prediction_(r)] = @ \cup {c}]
          /\ client_rooms' = Track(c, prediction_(r))
          /\ inbox' = [inbox EXCEPT ![c] = @ \o << Ack(r, "joined_prediction") >>]
    /\ hist' = [hist EXCEPT !.op = <<"join_prediction", c, r>>]
    /\ UNCHANGED <<call, ceiling, connected, job, req, store, configs, w, pending>>

\* handle_leave_prediction by client c with data {'request_id': r}
LeavePrediction(c, r) ==
    /\ c \in connected
    /\ Delivered < MaxDelivered
    /\ rooms' = [rooms EXCEPT ![prediction_(r)] = @ \ {c}]
    /\ client_rooms' = Untrack(c, prediction_(r))
    /\ inbox' = [inbox EXCEPT ![c] = @ \o << Ack(r, "left_prediction") >>]
    /\ hist' = [hist EXCEPT !.op = <<"leave_prediction", c, r>>]
    /\ UNCHANGED <<call, ceiling, connected, job, req, store, configs, w, pending>>

\* handle_connect: a client opens a socket and is told so; it is in no room
\* and has no entry in client_rooms
Connect(c) ==
    /\ c \notin connected
    /\ Delivered < MaxDelivered
    /\ connected' = connected \cup {c}
    /\ inbox' = [inbox EXCEPT ![c] = @ \o << Ack(0, "connected") >>]
    /\ hist' = [hist EXCEPT !.op = <<"connect", c, 0>>]
    /\ UNCHANGED <<call, ceiling, job, req, store, configs, w, rooms, client_rooms, pending>>

\* handle_disconnect: the entry of the client is deleted; socket.io takes the
\* closed socket out of every room
Disconnect(c) ==
    /\ c \in connected
    /\ connected' = connected \ {c}
    /\ client_rooms' = [d \in DOMAIN client_rooms \ {c} |-> client_rooms[d]]
    /\ rooms' = [n \in RoomNames |-> rooms[n] \ {c}]
    /\ hist' = [hist EXCEPT !.op = <<"disconnect", c, 0>>]
    /\ UNCHANGED <<call, ceiling, job, req, store, configs, w, inbox, pending>>

\* ------------------------------------------------------- tracker calls
\* ProgressTracker.__init__: current_stage = DATA_FETCHING, nothing computed yet
NoCall == [stage |-> "data_fetching", fraction |-> 0, result |-> None, prev |-> None]

\* a stage name outside ModelStage
UnknownStage == "series"

\* get_progress(stage, ...) with the fraction in the argument the stage reads:
\* epoch_progress for the training stage, sub_progress for every other stage
GetProgress(stage, f, prev) ==
    /\ call' = [stage |-> stage, fraction |-> f, prev |-> prev,
                result |-> Some(IF stage = "training_progress"
                                THEN get_progress(stage, f, 0)
                                ELSE get_progress(stage, 0, f))]
    /\ UNCHANGED <<ceiling, job, req, store, configs, w, connected, rooms, client_rooms, inbox,
                   pending, hist>>

\* a call with any stage name and any fraction
CallAny(stage, f) == GetProgress(stage, f, None)

\* the next call of a run that moves forward: the same stage with a fraction
\* that is not smaller, or a later stage of the table
CallForward(stage, f) ==
    /\ \/ stage = call.stage /\ f >= call.fraction
       \/ StageIndex(stage) > StageIndex(call.stage)
    /\ GetProgress(stage, f, call.result)

\* What a request carries (epochs) and what its collaborators will return: the
\* metrics of the real path (MetricsCalculator, history['loss'][-1]) and the
\* random draws of the simulated path (lines 325-331); emit: whether publishing
\* works in this run ("ok"), socketio.emit raises ("emit_raises") or
\* start_background_task raises ("schedule_raises")
Job(epochs, r2, accuracy) ==
    [epochs |-> epochs, emit |-> "ok",
     real |-> [r2 |-> r2, loss |-> 12, mae |-> 431, rmse |-> 612, mape |-> 4],
     sim |-> [accuracy |-> accuracy, loss |-> 15, r2_score |-> 75,
              mae |-> 500, rmse |-> 800, mape |-> 5]]

DefaultJob == Job(1, 60, 85)
JobChoices == {Job(e, r, a) : e \in {1, MaxEpochs}, r \in {-5, 0, 97}, a \in {85}}

\* --------------------------------------------------------- specifications
Handlers ==
    \/ \E s \in Sessions : PostCheck(s)
    \/ \E s \in Sessions : PostCreate(s)
    \/ \E s \in Sessions : PostStart(s)
    \/ \E s \in Sessions : PostStartExcept(s)
    \/ \E s \in Sessions : Cancel(s)
    \/ \E s \in Sessions : BgStart(s)
    \/ \E s \in Sessions : RealSetup(s)
    \/ \E s \in Sessions : RealInProgress(s)
    \/ \E s \in Sessions : TrainData(s)
    \/ \E s \in Sessions : TrainBuild(s)
    \/ \E s \in Sessions : TrainFitBegin(s)
    \/ \E s \in Sessions : TrainEpoch(s)
    \/ \E s \in Sessions : TrainFitEnd(s)
    \/ \E s \in Sessions : TrainEval(s)
    \/ \E s \in Sessions : TrainViz(s)
    \/ \E s \in Sessions : RealProgress(s)
    \/ \E s \in Sessions : RealSeries(s)
    \/ \E s \in Sessions : RealResults(s)
    \/ \E s \in Sessions : RealStatus(s)
    \/ \E s \in Sessions : RealComplete(s)
    \/ \E s \in Sessions : SimStart(s)
    \/ \E s \in Sessions : SimEpochEmit(s)
    \/ \E s \in Sessions : SimEpochWrite(s)
    \/ \E s \in Sessions : SimFinalProgress(s)
    \/ \E s \in Sessions : SimFinalEmit(s)
    \/ \E s \in Sessions : SimStatus(s)
    \/ \E s \in Sessions : SimResults(s)
    \/ \E s \in Sessions : SimComplete(s)
    \/ \E s \in Sessions : SimExcept(s)
    \/ \E s \in Sessions : BgExcept(s)

Next ==
    \/ Handlers
    \/ \E s \in Sessions : AsyncEmit(s)

InitCommon ==
    /\ ceiling \in 0..MaxCeiling
    /\ store = << >>
    /\ configs = 0
    /\ w = [s \in Sessions |-> NoWorker]
    /\ inbox = [c \in Clients |-> << >>]
    /\ pending = [s \in Sessions |-> << >>]
    /\ call = NoCall
    /\ hist = [overlap |-> FALSE, terminal |-> FALSE, op |-> NoOp]

\* One job, watched by subscribers that joined its room before it was submitted
Init ==
    /\ InitCommon
    /\ \E j \in JobChoices : job = [s \in Sessions |-> IF s = 1 THEN j ELSE DefaultJob]
    /\ req = [s \in Sessions |-> IF s = 1 THEN "idle" ELSE "unused"]
    /\ rooms = [s \in RoomNames |-> IF s = 1 THEN Clients ELSE {}]
    /\ connected = Clients
    /\ client_rooms = [c \in Clients |-> {1}]

Spec == Init /\ [][Next]_vars

\* The reactor keeps running every scheduled background task
FairSpec == Spec /\ \A s \in Sessions : WF_vars(Worker(s)) /\ WF_vars(AsyncEmit(s))

\* NumRequests clients submit concurrently; nobody subscribes, so no background
\* emit has anything to deliver
InitAdmit ==
    /\ InitCommon
    /\ job = [s \in Sessions |-> DefaultJob]
    /\ req = [s \in Sessions |-> "idle"]
    /\ rooms = [s \in RoomNames |-> {}]
    /\ connected = Clients
    /\ client_rooms = << >>

SpecAdmit == InitAdmit /\ [][Handlers]_vars

\* nothing is submitted and nobody is subscribed
InitTracker ==
    /\ ceiling = 0
    /\ store = << >>
    /\ configs = 0
    /\ w = [s \in Sessions |-> NoWorker]
    /\ inbox = [c \in Clients |-> << >>]
    /\ pending = [s \in Sessions |-> << >>]
    /\ call = NoCall
    /\ hist = [overlap |-> FALSE, terminal |-> FALSE, op |-> NoOp]
    /\ job = [s \in Sessions |-> DefaultJob]
    /\ req = [s \in Sessions |-> "unused"]
    /\ rooms = [s \in RoomNames |-> {}]
    /\ connected = Clients
    /\ client_rooms = << >>

NextForward == \E stage \in ModelStages : \E f \in 0..FullFraction : CallForward(stage, f)

\* calls that follow the table's order with fractions that do not go back
SpecForward == InitTracker /\ [][NextForward]_vars

NextCall ==
    \E stage \in ModelStages \cup {UnknownStage} :
        \E f \in (0 - Overshoot)..(FullFraction + Overshoot) : CallAny(stage, f)

\* calls with any stage and any fraction, also outside 0..100
SpecCall == InitTracker /\ [][NextCall]_vars

NextRoom ==
    \/ \E c \in Clients : \E s \in Sessions : Join(c, s)
    \/ \E c \in Clients : \E s \in Sessions : Leave(c, s)

\* clients join and leave the rooms of the sessions
SpecRoom == InitTracker /\ [][NextRoom]_vars

NextUpdate ==
    \/ \E s \in Sessions : PostCheck(s)
    \/ \E s \in Sessions : PostCreate(s)
    \/ \E s \in Sessions : \E status \in TrainingStatus : UpdateStatusCall(s, status)
    \/ \E s \in Sessions : UpdateProgressCall(s)
    \/ \E s \in Sessions : UpdateResultsCall(s)

\* rows are created by POST /train; the store helpers are called with any id
SpecUpdate == InitAdmit /\ [][NextUpdate]_vars

\* how publishing behaves during a run
EmitModes == {"ok", "emit_raises", "schedule_raises"}

\* One job, watched from the start, in a run where publishing works, where
\* socketio.emit raises, or where socketio.start_background_task raises
InitPublish ==
    /\ InitCommon
    /\ \E m \in EmitModes :
          job = [s \in Sessions |-> IF s = 1 THEN [DefaultJob EXCEPT !.emit = m] ELSE DefaultJob]
    /\ req = [s \in Sessions |-> IF s = 1 THEN "idle" ELSE "unused"]
    /\ rooms = [s \in RoomNames |-> IF s = 1 THEN Clients ELSE {}]
    /\ connected = Clients
    /\ client_rooms = [c \in Clients |-> {1}]

SpecPublish == InitPublish /\ [][Next]_vars

\* Two runs of the same job side by side, each admitted by POST /train and
\* started by start_training: session 1 has a room that clients join and leave,
\* session 2 never has a subscriber
InitPair ==
    /\ ceiling = MaxCeiling
    /\ configs = 2
    /\ call = NoCall
    /\ hist = [overlap |-> FALSE, terminal |-> FALSE, op |-> NoOp]
    /\ job = [s \in Sessions |-> DefaultJob]
    /\ req = [s \in Sessions |-> IF s \in {1, 2} THEN "accepted" ELSE "unused"]
    /\ store = [s \in {1, 2} |-> update_status(NewSession, IN_PROGRESS)]
    /\ w = [s \in Sessions |-> IF s \in {1, 2} THEN [NoWorker EXCEPT !.pc = "bg_start"]
                                ELSE NoWorker]
    /\ \E members \in {{}, Clients} :
          /\ rooms = [s \in RoomNames |-> IF s = 1 THEN members ELSE {}]
          /\ client_rooms = [c \in members |-> {1}]
    /\ connected = Clients
    /\ inbox = [c \in Clients |-> << >>]
    /\ pending = [s \in Sessions |-> << >>]

\* the two runs are at the same point: same position of the worker, same row
Twin == w[1] = w[2] /\ store[1] = store[2]

\* one run takes a step of its worker while the two runs are at the same point
Lead(s) == Twin /\ Worker(s)

\* the run that is behind takes the step that brings it to the point of the other
Follow(s, t) ==
    /\ ~Twin
    /\ Worker(s)
    /\ w'[s] = w[t]
    /\ store'[s] = store[t]

NextPair ==
    \/ \E s \in {1, 2} : Lead(s)
    \/ Follow(1, 2)
    \/ Follow(2, 1)
    \/ \E s \in Sessions : AsyncEmit(s)
    \/ Delivered = 0 /\ Join(1, 1)
    \/ 1 \in rooms[1] /\ Leave(1, 1)

\* the room of session 1 starts empty or with every client in it; client 1
\* joins it and leaves it at any moment of the run
SpecPair == InitPair /\ [][NextPair]_vars

\* nothing is submitted and no client is connected
InitConn ==
    /\ ceiling = 0
    /\ store = << >>
    /\ configs = 0
    /\ w = [s \in Sessions |-> NoWorker]
    /\ inbox = [c \in Clients |-> << >>]
    /\ pending = [s \in Sessions |-> << >>]
    /\ call = NoCall
    /\ hist = [overlap |-> FALSE, terminal |-> FALSE, op |-> NoOp]
    /\ job = [s \in Sessions |-> DefaultJob]
    /\ req = [s \in Sessions |-> "unused"]
    /\ connected = {}
    /\ rooms = [s \in RoomNames |-> {}]
    /\ client_rooms = << >>

NextConn ==
    \/ \E c \in Clients : Connect(c)
    \/ \E c \in Clients : Disconnect(c)
    \/ \E c \in Clients : \E s \in Sessions : Join(c, s)
    \/ \E c \in Clients : \E s \in Sessions : Leave(c, s)
    \/ \E c \in Clients : \E r \in Sessions : JoinPrediction(c, r)
    \/ \E c \in Clients : \E r \in Sessions : LeavePrediction(c, r)

\* clients connect, join and leave training and prediction rooms, disconnect
SpecConn == InitConn /\ [][NextConn]_vars

\* One job of five epochs, watched by subscribers that joined before it started
InitFive ==
    /\ InitCommon
    /\ job = [s \in Sessions |-> IF s = 1 THEN Job(5, 60, 85) ELSE DefaultJob]
    /\ req = [s \in Sessions |-> IF s = 1 THEN "idle" ELSE "unused"]
    /\ rooms = [s \in RoomNames |-> IF s = 1 THEN Clients ELSE {}]
    /\ connected = Clients
    /\ client_rooms = [c \in Clients |-> {1}]

SpecFive == InitFive /\ [][Next]_vars


\* ================================================================ claims
\* The events published so far to the room of session s, as a member that
\* joined before the job started has received them
Published(s) ==
    IF rooms[s] = {} THEN << >>
    ELSE SelectSeq(inbox[CHOOSE c \in rooms[s] : TRUE], LAMBDA e : e.sid = s)

Allowed ==
    {<<PENDING, IN_PROGRESS>>, <<IN_PROGRESS, COMPLETED>>,
     <<IN_PROGRESS, FAILED>>, <<IN_PROGRESS, CANCELLED>>}

\* C1: every change of a session's status is PENDING->IN_PROGRESS or
\* IN_PROGRESS->{COMPLETED, FAILED, CANCELLED}; a terminal status never changes.
C1_OnlyForwardTransitions ==
    [][\A s \in DOMAIN store :
          store'[s].status # store[s].status
          => <<store[s].status, store'[s].status>> \in Allowed]_vars

\* C2: a worker step that begins with the stored status CANCELLED publishes
\* nothing to the session's room and writes nothing to the session's row.
C2_CancelledWorkerStops ==
    [][\A s \in DOMAIN store :
          (store[s].status = CANCELLED /\ Running(s) /\ w'[s] # w[s])
          => (store'[s] = store[s] /\ Published(s)' = Published(s))]_vars


SimPcs == {"s_start", "s_epoch_emit", "s_epoch_write", "s_final_progress",
           "s_final_emit", "s_status", "s_results", "s_complete"}

HasEvent(s, P(_)) == \E i \in 1..Len(Published(s)) : P(Published(s)[i])
CountEvents(s, P(_)) == Cardinality({i \in 1..Len(Published(s)) : P(Published(s)[i])})

IsStageEvent(e) == e.kind = "stage"
IsMetricSample(e) == e.event = "metric_sample"
IsErrorEvent(e) == e.phase = "error"

\* the worker of s is in the fallback after the real path raised with at least
\* one stage event published
FailedOver(s) == w[s].pc \in SimPcs /\ HasEvent(s, IsStageEvent)

FullMetrics(row) ==
    /\ row.accuracy # None /\ row.loss # None /\ row.r2_score # None
    /\ row.mae # None /\ row.rmse # None /\ row.mape # None

CompletedFull(s) ==
    s \in DOMAIN store /\ store[s].status = COMPLETED /\ FullMetrics(store[s])

\* C3: when the real path raises after a stage event was published, the session
\* eventually is COMPLETED with all six metrics stored, and the simulated path
\* publishes at most 20 epoch samples.
C3_FailoverCompletes ==
    /\ \A s \in Sessions : FailedOver(s) ~> (w[s].pc = "done" /\ CompletedFull(s))
    /\ [](\A s \in Sessions : CountEvents(s, IsMetricSample) <= SimEpochCap)

C3_Witness ==
    \E s \in Sessions :
        /\ w[s].pc = "done" /\ CompletedFull(s)
        /\ HasEvent(s, IsStageEvent)
        /\ CountEvents(s, IsMetricSample) = SimEpochCap
        /\ job[s].epochs > SimEpochCap

C5_ErrorEventPublished ==
    \A s \in DOMAIN store :
        (w[s].pc = "done" /\ store[s].status = FAILED)
        => HasEvent(s, IsErrorEvent)


Settled == \A s \in Sessions : req[s] \in {"accepted", "rejected"}
Admitted == {s \in Sessions : req[s] = "accepted"}
Rejected == {s \in Sessions : req[s] = "rejected"}

\* C6: a request leaves the limit check admitted only if the number of
\* IN_PROGRESS rows is below the ceiling, and rejected only if it is not; with
\* ceiling 0 nothing is admitted.
C6_AdmissionCheck ==
    [][\A s \in Sessions :
          /\ (req[s] \in {"idle", "rejected"} /\ req'[s] = "checked")
             => ActiveCount(store) < ceiling
          /\ (req[s] = "idle" /\ req'[s] = "rejected")
             => ActiveCount(store) >= ceiling]_vars

C6_Witness ==
    \E s, t \in Sessions :
        /\ ceiling >= 1 /\ ActiveCount(store) = ceiling
        /\ req[s] = "rejected" /\ req[t] = "accepted"

\* C7 as stated: NumRequests > ceiling jobs submitted, all requests answered,
\* no admitted job terminal yet: exactly `ceiling` admitted, the rest rejected.
C7_ExactlyCeilingAdmitted ==
    (Settled /\ ~hist.terminal /\ NumRequests > ceiling)
    => /\ Cardinality(Admitted) = ceiling
       /\ Cardinality(Rejected) = NumRequests - ceiling

\* C7 amended: at least `ceiling` are admitted and at most the rest rejected;
\* exactly so when no limit check ran while another request was in the handler.
C7_AtLeastCeilingAdmitted ==
    (Settled /\ ~hist.terminal /\ NumRequests > ceiling)
    => /\ Cardinality(Admitted) >= ceiling
       /\ Cardinality(Rejected) <= NumRequests - ceiling
       /\ ~hist.overlap => /\ Cardinality(Admitted) = ceiling
                           /\ Cardinality(Rejected) = NumRequests - ceiling

C7_Witness ==
    /\ Settled /\ ~hist.terminal /\ ~hist.overlap
    /\ ceiling >= 1 /\ NumRequests > ceiling
    /\ Cardinality(Admitted) = ceiling /\ Rejected # {}

\* C8: the step that rejects a request for capacity changes no row of
\* training_sessions, adds no ModelConfiguration, schedules no worker and
\* publishes nothing.
C8_RejectionMutatesNothing ==
    [][\A s \in Sessions :
          (req[s] = "idle" /\ req'[s] = "rejected")
          => /\ store' = store
             /\ configs' = configs
             /\ w' = w
             /\ inbox' = inbox]_vars

C8_Witness ==
    \E s \in Sessions :
        /\ req[s] = "rejected" /\ s \notin DOMAIN store
        /\ DOMAIN store # {}
        /\ configs = Cardinality(DOMAIN store)

\* C9: ceiling 1, job a admitted.  While a is IN_PROGRESS no other request can
\* pass the limit check; once a is COMPLETED (and nothing else is running) the
\* rejected request b, submitted again, passes it.
C9_SlotReleasedOnCompletion ==
    ceiling = 1 =>
      \A a \in DOMAIN store : \A b \in Sessions \ {a} :
        /\ (store[a].status = IN_PROGRESS /\ req[b] \in {"idle", "rejected"})
           => ~ENABLED (PostCheck(b) /\ req'[b] = "checked")
        /\ (store[a].status = COMPLETED /\ DOMAIN store = {a} /\ req[b] = "rejected")
           => ENABLED (PostCheck(b) /\ req'[b] = "checked")

C9_Witness ==
    \E a \in DOMAIN store : \E b \in Sessions \ {a} :
        /\ ceiling = 1 /\ ~hist.overlap
        /\ store[a].status = COMPLETED /\ w[a].pc = "done"
        /\ DOMAIN store = {a} /\ req[b] = "rejected"
        /\ ENABLED (PostCheck(b) /\ req'[b] = "checked")

\* C10: cancel_training succeeds exactly on an existing IN_PROGRESS row, which
\* it sets to CANCELLED and nothing else; in every other case (PENDING or
\* terminal row, unknown id) it reports failure and leaves the store as it is;
\* get_training_status of an unknown id is None.
C10_CancelOnlyInProgress ==
    \A s \in Sessions :
        LET r == CancelTraining(store, s)
        IN /\ r.success <=> (s \in DOMAIN store /\ store[s].status = IN_PROGRESS)
           /\ ~r.success => r.store = store
           /\ r.success => r.store = [store EXCEPT ![s].status = CANCELLED]
           /\ s \notin DOMAIN store => GetTrainingStatus(store, s) = None
           /\ s \in DOMAIN store => GetTrainingStatus(store, s) # None

C10_Witness ==
    \E s \in DOMAIN store : \E u \in Sessions \ DOMAIN store :
        /\ store[s].status = CANCELLED
        /\ ~CancelTraining(store, s).success
        /\ ~CancelTraining(store, u).success


\* The events of session s that client c has received, in order of arrival
Rcvd(c, s) == SelectSeq(inbox[c], LAMBDA e : e.sid = s /\ e.kind \notin {"snapshot", "ack"})

IsPrefix(a, b) == Len(a) <= Len(b) /\ SubSeq(b, 1, Len(a)) = a

IsTerminalEvent(e) == e.kind = "unified" /\ e.phase \in {"complete", "error"}

\* C12: once the worker of session s has finished and its last background emit
\* has run, what a client that was in the room from before the start has
\* received ends with a terminal event (training_completed or error), and
\* holds exactly one.
C12_ExactlyOneTerminalEvent ==
    \A s \in Sessions : \A c \in rooms[s] :
        (w[s].pc = "done" /\ pending[s] = << >>)
        => LET r == Rcvd(c, s)
           IN /\ Len(r) > 0
              /\ IsTerminalEvent(r[Len(r)])
              /\ Len(SelectSeq(r, IsTerminalEvent)) = 1

\* the percentage an event carries in its 'progress' field
Percent(e) == CHOOSE x \in e.progress : TRUE

\* the training_update messages (unified and legacy) that carry a percentage
CarriesPercent(e) == e.kind \in {"unified", "legacy"} /\ e.progress # None

\* C13: the percentages of the events of one session, in the order a client
\* present from the start receives them, never decrease.
C13_ProgressNonDecreasing ==
    \A s \in Sessions : \A c \in rooms[s] :
        LET r == SelectSeq(Rcvd(c, s), CarriesPercent)
        IN \A i \in 1..(Len(r) - 1) : Percent(r[i]) <= Percent(r[i + 1])

\* the training_update messages published for an epoch
IsEpochEvent(e) == e.epoch > 0 /\ CarriesPercent(e)

\* C14: with epochs = 5 every epoch event carries a percentage within 40..70,
\* and the percentages of the events of one kind increase strictly with the epoch.
C14_EpochProgressInTrainingBand ==
    \A c \in rooms[1] :
        LET r == SelectSeq(Rcvd(c, 1), IsEpochEvent)
        IN /\ \A i \in 1..Len(r) : Percent(r[i]) \in 40..70
           /\ \A i, j \in 1..Len(r) :
                 (r[i].kind = r[j].kind /\ r[i].event = r[j].event /\ r[i].epoch < r[j].epoch)
                 => Percent(r[i]) < Percent(r[j])

\* C15: along calls that move forward through the table, with fractions that do
\* not decrease within a stage, the result of get_progress never decreases.
C15_ProgressMonotone ==
    \A p \in call.prev : \A r \in call.result : p <= r

C15_Witness ==
    /\ call.stage = "evaluating_update" /\ call.fraction = 40
    /\ call.prev = Some(70) /\ call.result = Some(76)

\* C16: for a fraction f in 0..100 the training stage yields
\* min(floor(40 + 30f/100), 70), evaluation min(floor(70 + 15f/100), 85),
\* visualisation min(floor(85 + 15f/100), 100), and every other stage its base.
C16_BandFormula ==
    (call.result # None /\ call.fraction \in 0..100) =>
        LET f == call.fraction
        IN call.result =
             Some(CASE call.stage = "training_progress" -> Min(40 + (f * 30) \div 100, 70)
                    [] call.stage = "evaluating_update" -> Min(70 + (f * 15) \div 100, 85)
                    [] call.stage = "visualizing_update" -> Min(85 + (f * 15) \div 100, 100)
                    [] OTHER -> STAGE_PROGRESS(call.stage))

C16_Witness ==
    /\ call.stage = "training_progress" /\ call.fraction = 99 /\ call.result = Some(69)

\* the upper end of the band of a stage
BandCeiling(stage) ==
    CASE stage = "training_progress" -> 70
      [] stage = "evaluating_update" -> 85
      [] stage = "visualizing_update" -> 100
      [] OTHER -> STAGE_PROGRESS(stage)

\* C17: for every stage, an unknown one included, and every fraction, also below
\* 0 and above 100, the result lies between the base of the stage and the upper
\* end of its band; an unknown stage yields 0.
C17_ResultWithinBand ==
    \A r \in call.result :
        /\ STAGE_PROGRESS(call.stage) <= r /\ r <= BandCeiling(call.stage)
        /\ call.stage \notin ModelStages => r = 0

\* C18: a join by a client that is already in the room changes neither the
\* room, nor client_rooms, nor any inbox; a leave by a client that is not in the
\* room changes neither the room nor client_rooms; a join after a leave puts the
\* client back into the room and into client_rooms.
C18_SubscriptionIdempotent ==
    [][\A c \in Clients : \A s \in Sessions :
          /\ (hist'.op = <<"join_training", c, s>> /\ c \in rooms[s])
             => (rooms' = rooms /\ client_rooms' = client_rooms /\ inbox' = inbox)
          /\ (hist'.op = <<"leave_training", c, s>> /\ c \notin rooms[s])
             => (rooms' = rooms /\ client_rooms' = client_rooms)
          /\ (hist.op = <<"leave_training", c, s>> /\ hist'.op = <<"join_training", c, s>>)
             => (c \in rooms'[s] /\ c \in DOMAIN client_rooms' /\ s \in client_rooms'[c])]_vars

C18_Witness ==
    /\ hist.op = <<"join_training", 1, 1>>
    /\ rooms[1] = {1} /\ rooms[2] = {}
    /\ inbox[1] = << Ack(1, "joined_training"), Snapshot(1), Ack(2, "left_training") >>

IsSnapshot(e) == e.kind = "snapshot"

\* C19: a join that puts the client into the room sends exactly one status
\* message with progress 0, to the joining client and to nobody else.
C19_OneSnapshotToJoiner ==
    [][\A c \in Clients : \A s \in Sessions :
          (c \notin rooms[s] /\ c \in rooms'[s])
          => /\ Len(inbox'[c]) >= Len(inbox[c])
             /\ SubSeq(inbox'[c], 1, Len(inbox[c])) = inbox[c]
             /\ SelectSeq(SubSeq(inbox'[c], Len(inbox[c]) + 1, Len(inbox'[c])), IsSnapshot)
                  = << Snapshot(s) >>
             /\ \A d \in Clients \ {c} : inbox'[d] = inbox[d]]_vars

C19_Witness ==
    /\ hist.op = <<"join_training", 2, 1>>
    /\ rooms[1] = {1, 2}
    /\ inbox[1] = << Ack(1, "joined_training"), Snapshot(1) >>
    /\ inbox[2] = << Ack(1, "joined_training"), Snapshot(1) >>

\* C20: when no step of the pipeline itself fails, a run in which publishing
\* fails ends like the run in which publishing works: the row is COMPLETED and
\* holds the metrics of the real training.
C20_PublishFailureIsolated ==
    \A s \in DOMAIN store :
        (w[s].pc = "done" /\ w[s].cause # "pipeline")
        => /\ store[s].status = COMPLETED
           /\ store[s].accuracy = Some(job[s].real.r2)
           /\ store[s].loss = Some(job[s].real.loss)
           /\ store[s].mae = Some(job[s].real.mae)
           /\ store[s].rmse = Some(job[s].real.rmse)
           /\ store[s].mape = Some(job[s].real.mape)

UpdateOps == {"update_status", "update_progress", "update_results"}

\* C21: a call of _update_training_status, _update_training_progress or
\* _update_training_results with an id that has no row leaves the store as it
\* is: no row is created and no existing row changes.
C21_UpdateOfMissingIdIsNoOp ==
    [][\A s \in Sessions :
          (hist'.op[1] \in UpdateOps /\ hist'.op[2] = s /\ s \notin DOMAIN store)
          => store' = store]_vars

C21_Witness ==
    /\ hist.op = <<"update_results", 2, 0>>
    /\ DOMAIN store = {1}
    /\ store[1].status = IN_PROGRESS

\* C22: completed_at is empty while the row is PENDING or IN_PROGRESS, is set
\* once the row is in a terminal status, and is assigned at most once.
C22_CompletedAtSetOnceOnTerminal ==
    \A s \in DOMAIN store :
        /\ store[s].status \in {PENDING, IN_PROGRESS} => store[s].completed_at = None
        /\ store[s].status \in Terminal => store[s].completed_at # None
        /\ store[s].completed_at \subseteq {1}

\* the result fields of a row
ResultFields == {"accuracy", "loss", "r2_score", "mae", "rmse", "mape"}

\* C23: a row holds a value in a result field only if its status is COMPLETED.
C23_MetricsOnlyWhenCompleted ==
    \A s \in DOMAIN store :
        (\E f \in ResultFields : store[s][f] # None) => store[s].status = COMPLETED

\* C24: the outcome of a job does not depend on its subscribers.  Of two runs
\* of the same job, one with clients joining and leaving its room and one
\* without any subscriber, whichever takes a step (a store write, a raise, the
\* end) from a common point, the other can take the same step: same next
\* position, same error, same row.
C24_OutcomeIndependentOfSubscribers ==
    (~Twin /\ pending[1] = << >> /\ pending[2] = << >>)
    => (ENABLED Follow(1, 2) \/ ENABLED Follow(2, 1))

C24_Witness ==
    /\ Twin
    /\ w[1].pc = "done"
    /\ store[2].status = COMPLETED
    /\ rooms[1] = {}
    /\ \E c \in Clients : \E i, j \in 1..Len(inbox[c]) :
          /\ i < j
          /\ inbox[c][i].kind \notin {"ack", "snapshot"}
          /\ inbox[c][j].event = "left_training"

\* C25: both paths conclude in the same order.  The step that first shows a
\* row as COMPLETED is complete(metrics), so it also sets completed_at and the
\* metrics (update_status(COMPLETED) only follows it); and a step that
\* publishes training_completed finds the row COMPLETED with completed_at and
\* the metrics set.
C25_CompleteThenStatusThenEvent ==
    [][\A s \in DOMAIN store :
          /\ (store[s].status # COMPLETED /\ store'[s].status = COMPLETED)
             => /\ store'[s].completed_at # None
                /\ store'[s].accuracy # None
                /\ store'[s].loss # None
          /\ (\E c \in Clients :
                 /\ Len(inbox'[c]) > Len(inbox[c])
                 /\ \E i \in (Len(inbox[c]) + 1)..Len(inbox'[c]) :
                       inbox'[c][i].sid = s /\ inbox'[c][i].event = "training_completed")
             => /\ store[s].status = COMPLETED
                /\ store[s].completed_at # None
                /\ store[s].accuracy # None]_vars

\* C26: while no two POST /train requests have interleaved, the number of
\* IN_PROGRESS rows does not exceed the ceiling, whatever the workers and
\* cancel_training do in between.
C26_InProgressWithinCeilingWhenSerial ==
    ~hist.overlap => ActiveCount(store) <= ceiling

\* C27: while no two POST /train requests have interleaved, the number of
\* workers that are scheduled and have not returned does not exceed the
\* ceiling, also after a cancel_training.
C27_RunningWorkersWithinCeilingWhenSerial ==
    ~hist.overlap => Cardinality({s \in Sessions : Running(s)}) <= ceiling

\* C28: client_rooms agrees with the membership of the rooms.  A room name is
\* in the entry of a client exactly when the client is a member of that room,
\* no entry is an empty set, and a client that is not connected has no entry.
C28_RegistryAgreesWithRooms ==
    \A c \in Clients :
        /\ \A n \in RoomNames : Tracked(c, n) <=> c \in rooms[n]
        /\ c \in DOMAIN client_rooms => (client_rooms[c] # {} /\ client_rooms[c] \subseteq RoomNames)
        /\ c \notin connected => c \notin DOMAIN client_rooms

C28_Witness ==
    /\ hist.op = <<"disconnect", 2, 0>>
    /\ connected = {1}
    /\ client_rooms = (1 :> {prediction_(1)})
    /\ rooms[prediction_(1)] = {1}
    /\ \E i \in 1..Len(inbox[2]) : inbox[2][i].event = "joined_prediction"

\* C29: for every stored row, get_training_status reports a percentage within
\* 0..100 and a stage that identifies the status: 100/'completed' exactly for
\* COMPLETED, 'failed' for FAILED, 'training' only for IN_PROGRESS (50 without
\* a stored accuracy), 'pending' only for PENDING.
C29_ProgressIdentifiesStatus ==
    \A s \in DOMAIN store :
        \A r \in GetTrainingStatus(store, s) :
            /\ r.progress.percentage \in 0..100
            /\ r.progress = [percentage |-> 100, stage |-> "completed"]
                   <=> store[s].status = COMPLETED
            /\ store[s].status = FAILED => r.progress.stage = "failed"
            /\ r.progress.stage = "training" => store[s].status = IN_PROGRESS
            /\ (store[s].status = IN_PROGRESS /\ store[s].accuracy = None)
                   => r.progress.percentage = 50
            /\ r.progress.stage = "pending" => store[s].status = PENDING

\* C30: a row that shows COMPLETED has completed_at and the final metrics of
\* the path that completed it: accuracy and loss on both paths, and r2_score,
\* mae, rmse, mape when the simulated path completed it.
C30_CompletedHasCompletionData ==
    \A s \in DOMAIN store :
        store[s].status = COMPLETED
        => /\ store[s].completed_at # None
           /\ store[s].accuracy # None
           /\ store[s].loss # None
           /\ w[s].pc \in {"s_results", "s_complete"}
                 => \A f \in {"r2_score", "mae", "rmse", "mape"} : store[s][f] # None

====
